---- MODULE Spec2Model ----
(***************************************************************************)
(* State-machine model of sync.py: aplly_EKF, from opening the logs to the *)
(* plot (lines 54-183), and forward_kinematics (lines 8-51).               *)
(*                                                                         *)
(*   Spec      the stream-synchronisation scheduler (lines 54-143) over    *)
(*             every observation and action log within the bounds;         *)
(*   FullSpec  the scheduler over a family of fixed logs, followed by the  *)
(*             dead-reckoning baseline (lines 146-183) over every input    *)
(*             file within the bounds;                                     *)
(*   KinSpec   one call of forward_kinematics for every heading and pair   *)
(*             of wheel displacements within the bounds.                   *)
(*                                                                         *)
(* The logs are modelled as lazily read streams: every readline() draws    *)
(* the next line of the file from a bounded set, or takes it from the      *)
(* fixed content of the file.  A line is a sample "ts left right", the     *)
(* empty line "\n", end of input "", or a malformed line; for the baseline *)
(* input the malformed lines are told apart by their token count.  Sample  *)
(* timestamps are monotonically non-decreasing within a stream (the input  *)
(* contract of the scheduler).                                             *)
(*                                                                         *)
(* Scaling of the floating-point quantities (all by positive constants, so *)
(* sign and zero are kept; the arithmetic of the model is exact):          *)
(*   dt, d_time are held in milliseconds (the code divides by 1000);       *)
(*   v          is held as  d_r_num*right + d_l_num*left                   *)
(*              (the code multiplies by k / (2*1000*26.359*223));          *)
(*   w          is held as  d_r_num*right - d_l_num*left                   *)
(*              (the code multiplies by k / (d*1000*26.359*223));          *)
(*   odometry   is held as  <<right*d_time*d_r_num, left*d_time*d_l_num>>  *)
(*              (the code divides by 1000*26.359*223*1000);                *)
(*   d_len, d_angle and the heading are held as sum and difference of the  *)
(*              two wheel displacements (the code multiplies by k/2, k/l); *)
(*   the x and y increments, which need sine and cosine, are held as the   *)
(*              expressions that compute them.                             *)
(* The EKF class lives in ekf.py, which is not part of the sources at      *)
(* hand: the belief is an opaque version stamp that every predict/update   *)
(* call advances.                                                          *)
(***************************************************************************)
EXTENDS Integers, Sequences, FiniteSets

\* ---------------------------------------------------------------- bounds
\* most sample lines an observation file holds
MaxObs == 3
\* most sample lines an action file holds
MaxActs == 3
\* most lines the baseline reads from its input file
MaxIn == 3
\* largest heading handed to forward_kinematics on its own, in units of the
\* heading numerator
MaxTheta == 2
\* largest wheel displacement handed to forward_kinematics on its own
MaxOdo == 3

\* ------------------------------------------------------- program constants
\* np.inf, the value ts_obs takes at the end-of-stream sentinel (line 130)
Inf == 1000000
\* numerator of d_l: 4283919143 - 4283826615 (line 106)
d_l_num == 92528
\* numerator of d_r: 4288936710 - 4288840803 (line 107)
d_r_num == 95907

\* raw timestamps of the first sample of a stream
FirstTimes == {0, 1}
\* gaps in milliseconds between consecutive observation timestamps
ObsDtSteps == {0, 1}
\* cumulative counts <<left, right>> of the first observation sample
ObsFirstTicks == {<<3, 5>>}
\* per-sample tick increments drawn for the observation stream
ObsTickSteps == {<<0, 0>>, <<1, 0>>, <<0, 1>>}
\* gaps in milliseconds between consecutive action timestamps: the actions
\* are sampled more coarsely than the observations
ActDtSteps == {0, 2}
\* tick values <<left, right>> drawn for action samples
ActTicks == {<<1, 1>>, <<2, 1>>}
\* gap and first tokens drawn for the lines of the baseline input that do
\* not hold exactly three tokens
LongDtSteps == {2}
LongTicks == {<<1, 1>>}

\* ------------------------------------------------------------------ lines
Sample(t, l, r) == [kind |-> "sample", ts |-> t, left |-> l, right |-> r]
EmptyLine == [kind |-> "empty", ts |-> 0, left |-> 0, right |-> 0]
EofLine == [kind |-> "eof", ts |-> 0, left |-> 0, right |-> 0]
BadLine == [kind |-> "malformed", ts |-> 0, left |-> 0, right |-> 0]

\* a line of one integer token, of two, and of more than three (of which
\* the first three are kept here)
OneToken(t) == [kind |-> "one", ts |-> t, left |-> 0, right |-> 0]
TwoTokens(t, l) == [kind |-> "two", ts |-> t, left |-> l, right |-> 0]
LongLine(t, l, r) == [kind |-> "long", ts |-> t, left |-> l, right |-> r]

\* the lines that end or break a stream
EndLines == {EmptyLine, EofLine, BadLine}

\* list(map(int, line.split())) unpacked into three names succeeds only on
\* a line of three integer tokens (lines 70, 72, 82, 113, 134)
ParsesAsTriple(line) == line.kind = "sample"

\* line 159: list(map(int, f_in.readline().split())) raises only on a token
\* that is no integer
ParsesAsInts(line) == line.kind # "malformed"

\* line 160: not inp, the list of tokens is empty
NoTokens(line) == line.kind \in {"empty", "eof"}

\* lines 166, 167: inp[1], inp[2] exist
HasIndex(line, i) ==
    \/ line.kind \in {"sample", "long"}
    \/ line.kind = "two" /\ i <= 1

VARIABLES
    pc, err,
    \* observation slots
    ts_obs, left_obs, right_obs,
    ts_obs_prev, left_obs_prev, right_obs_prev, ts_obs_0,
    \* action slots
    ts_acts, left_acts, right_acts,
    ts_acts_prev, left_acts_prev, right_acts_prev, ts_acts_0,
    \* scheduler
    ts, v, w, ekf, x, y, th,
    \* history: for every observation sample read so far its raw timestamp,
    \* its counts and whether they differ from those of the sample before; the
    \* last observation sample read; the action samples read so far; the calls
    \* made on the filter; the number of readline() calls on the observations
    obs_log, obs_last, acts_lines, calls, obs_reads,
    \* the line the latest readline() returned and the file it came from
    last_read,
    \* the content of the two scheduler logs when they are fixed in advance
    script,
    \* dead-reckoning baseline
    timestamp_last, left, right, state, odometry, d_state, x_in, y_in, th_in,
    \* history: the lines of the input file the baseline took as samples
    in_lines

obsVars == <<ts_obs, left_obs, right_obs,
             ts_obs_prev, left_obs_prev, right_obs_prev, ts_obs_0>>
actVars == <<ts_acts, left_acts, right_acts,
             ts_acts_prev, left_acts_prev, right_acts_prev, ts_acts_0>>
trajVars == <<x, y, th>>
schedVars == <<obsVars, actVars, ts, v, w, ekf, obs_log, obs_last,
               acts_lines, calls, obs_reads>>
baseVars == <<timestamp_last, left, right, state, odometry, d_state,
              x_in, y_in, th_in, in_lines>>
vars == <<pc, err, obsVars, actVars, ts, v, w, ekf, trajVars,
          obs_log, obs_last, acts_lines, calls, obs_reads, last_read, script,
          baseVars>>

\* ------------------------------------------------------------ environment
\* no log is fixed in advance: every readline() draws its line
NoScript == [on |-> FALSE, obs |-> <<>>, acts |-> <<>>]

\* line i of a file given as the sequence of its lines; past the last line
\* readline() returns ''
FileLine(file, i) == IF i <= Len(file) THEN file[i] ELSE EofLine

\* the lines obs.readline() may return next
NextObsLines ==
    LET n == Len(obs_log) IN
    IF script.on THEN {FileLine(script.obs, obs_reads + 1)}
    ELSE
    (IF n >= MaxObs THEN {}
     ELSE IF n = 0
     THEN {Sample(t, s[1], s[2]) : t \in FirstTimes, s \in ObsFirstTicks}
     ELSE {Sample(obs_last.ts + d, obs_last.left + s[1],
                  obs_last.right + s[2]) :
              d \in ObsDtSteps, s \in ObsTickSteps})
    \cup EndLines

\* the lines acts.readline() may return next
NextActLines ==
    LET n == Len(acts_lines) IN
    IF script.on THEN {FileLine(script.acts, n + 1)}
    ELSE
    (IF n >= MaxActs THEN {}
     ELSE IF n = 0
     THEN {Sample(t, s[1], s[2]) : t \in FirstTimes, s \in ActTicks}
     ELSE {Sample(acts_lines[n].ts + d, s[1], s[2]) :
              d \in ActDtSteps, s \in ActTicks})
    \cup EndLines

\* the lines f_in.readline() may return next: samples, a sample followed by
\* a fourth token, lines of one or two tokens, and the lines that end or
\* break a stream
NextInLines ==
    LET n == Len(in_lines) IN
    (IF n >= MaxIn THEN {}
     ELSE IF n = 0
     THEN {Sample(t, s[1], s[2]) : t \in FirstTimes, s \in ActTicks}
          \cup {LongLine(t, s[1], s[2]) : t \in FirstTimes, s \in LongTicks}
     ELSE {Sample(in_lines[n].ts + d, s[1], s[2]) :
              d \in ActDtSteps, s \in ActTicks}
          \cup {LongLine(in_lines[n].ts + d, s[1], s[2]) :
                   d \in LongDtSteps, s \in LongTicks}
          \cup {OneToken(in_lines[n].ts + d) : d \in LongDtSteps}
          \cup {TwoTokens(in_lines[n].ts + d, s[1]) :
                   d \in LongDtSteps, s \in LongTicks})
    \cup EndLines

\* a readline() and what it returned
Read(f, line) == [file |-> f, line |-> line]

\* the history entry of an observation sample
Logged(line) ==
    [ts |-> line.ts, left |-> line.left, right |-> line.right,
     moved |-> /\ obs_log # <<>>
               /\ <<line.left, line.right>> # <<obs_last.left, obs_last.right>>]

\* ---------------------------------------------------------------- helpers
\* a change of the right wheel alone goes unnoticed
TickChanged_LeftOnly(l, lp, r, rp) == l - lp # 0

\* line 74: (left_obs - left_obs_prev) or (right_obs - right_obs_prev)
TickChanged(l, lp, r, rp) == (l - lp # 0) \/ (r - rp # 0)

\* line 111: not acts_line
ActsExhausted(line) == line.kind = "eof"

\* line 116
ControlV(lp, rp) == d_r_num * rp + d_l_num * lp

\* one rate for both wheels
ControlW_OneRate(lp, rp) == d_r_num * (rp - lp)

\* line 117
ControlW(lp, rp) == d_r_num * rp - d_l_num * lp

\* the control is taken from the sample just read
ControlInput_Current(prev, cur) == cur

\* lines 116-117 read the *_prev slots: which of the two action slots feeds
\* the control
ControlInput(prev, cur) == prev

\* an observation at exactly the action time is left for the next action
InnerLoopGuard_Strict(tso, tsa) == tso < tsa

\* observations are drained whatever the action time
InnerLoopGuard_NoBound(tso, tsa) == tso # Inf

\* the comparison the wrong way round
InnerLoopGuard_Swapped(tso, tsa) == tsa <= tso

\* line 119: ts_obs <= ts_acts
InnerLoopGuard(tso, tsa) == tso <= tsa

\* the raw timestamp is used as it is
NormalTime_Raw(raw, origin) == raw

\* lines 80, 114, 135: a raw timestamp moved to the stream's time origin
NormalTime(raw, origin) == raw - origin

\* lines 120, 137: the dt handed to predict, in milliseconds
PredictDt(to, from) == to - from

\* the cumulative counts are handed over instead of their increase
ObsDelta_Absolute(l, lp, r, rp) == <<l, r>>

\* line 121: the observation handed to update
ObsDelta(l, lp, r, rp) == <<l - lp, r - rp>>

\* line 129: obs_line == '\n'
IsSentinel(line) == line.kind = "empty"

\* the end of the observations leaves ts_obs at the last sample's time
SentinelTime_Stale == ts_obs

\* line 130: ts_obs = np.inf
SentinelTime == Inf

\* the mean as it was before the update is appended
TrajAppend_Stale(list, e) == Append(list, e.version - 1)

\* the snapshot is inserted at the front
TrajAppend_Prepend(list, e) == <<e.version>> \o list

\* lines 124-126: one snapshot of the mean appended to a trajectory list
TrajAppend(list, e) == Append(list, e.version)

\* EKFarc(state_initial, sigma_initial, alphas, d, k, Q), line 100
ekf_new == [version |-> 0, last |-> "init"]

\* EKFarc.predict: replaces the belief by the propagated one
ekf_predict(e, u, dt) == [version |-> e.version + 1, last |-> "predict"]

\* EKFarc.update: replaces the belief by the corrected one
ekf_update(e, z) == [version |-> e.version + 1, last |-> "update"]

\* a record of one call on the filter
Call(o, a, i, d, uu, zz) ==
    [op |-> o, act |-> a, obs |-> i, dt |-> d, u |-> uu, z |-> zz]

\* no exception so far
NoError == [exc |-> "none", at |-> "none", line |-> "none"]

\* an uncaught exception ends the run: the exception, the source line that
\* raises it and the kind of input line it is raised on
Raise(e, where, line) ==
    /\ pc' = "crashed"
    /\ err' = [exc |-> e, at |-> where, line |-> line.kind]

\* ----------------------------------------------------- forward_kinematics
\* lines 65-67: the geometry, lengths in millimetres
params ==
    [diag_length |-> 490, wheel_radius |-> 130, counts_per_rotation |-> 2394]

\* lines 25-29: the asserts on the shapes and on the three geometry entries
KinAsserts(p, st, odo) ==
    /\ Len(st) = 3
    /\ Len(odo) = 2
    /\ p.diag_length # 0
    /\ p.wheel_radius # 0
    /\ p.counts_per_rotation # 0

\* A coordinate increment is held as the expression that computes it: the
\* branch taken, the arc length, the arc angle and the heading it is
\* evaluated at.
\*   "len*cos"  is  d_len * cos(th)                              (line 47)
\*   "len*sin"  is  d_len * sin(th)                              (line 48)
\*   "arc_x"    is  d_len/d_angle * (-sin(th) + sin(th+d_angle)) (line 43)
\*   "arc_y"    is  d_len/d_angle * (cos(th) - cos(th+d_angle))  (line 44)
Term(fn, len, ang, heading) ==
    [f |-> fn, d_len |-> len, d_angle |-> ang, th |-> heading]

\* no increment computed yet
NoTerm == Term("none", 0, 0, 0)

\* the arc branch is taken whenever the platform has moved
TakesArc_OnLength(d_len, d_angle) == d_len # 0

\* line 42: if d_angle != 0
TakesArc(d_len, d_angle) == d_angle # 0

\* lines 31-51.  odometry is <<right, left>>; d_len is held as
\* right + left (the code multiplies by k/2) and d_angle as right - left
\* (the code multiplies by k/l), k = 2*pi*r/counts_2pi > 0.
forward_kinematics(p, st, odo) ==
    LET heading == st[3]
        d_len_right == odo[1]
        d_len_left == odo[2]
        d_len == d_len_right + d_len_left
        d_angle == d_len_right - d_len_left
    IN IF TakesArc(d_len, d_angle)
       THEN <<Term("arc_x", d_len, d_angle, heading),
              Term("arc_y", d_len, d_angle, heading),
              d_angle>>
       ELSE <<Term("len*cos", d_len, 0, heading),
              Term("len*sin", d_len, 0, heading),
              d_angle>>

\* ---------------------------------------------------------------- baseline
\* line 146: np.array([0., 0., 0.]); x and y are held as the sequence of
\* the increments added so far, the heading as its numerator
ZeroState == <<<<>>, <<>>, 0>>

\* line 169: state + d_state
StateAdd(st, d) == <<Append(st[1], d[1]), Append(st[2], d[2]), st[3] + d[3]>>

\* the odometry is taken from the ticks of the line just read
OdoInput_Current(prev, cur) == cur

\* line 165 reads left and right before lines 166-167 replace them: the
\* ticks of the previous line feed the odometry
OdoInput(prev, cur) == prev

\* line 165: np.array([right*d_time*d_r, left*d_time*d_l]), d_time in
\* milliseconds and the rates as their numerators
Odometry(l, r, d_time) == <<r * d_time * d_r_num, l * d_time * d_l_num>>

\* the pose is appended to the trajectory of the filter
AppendPose_ToFilter(filtered, baseline, e) == <<Append(filtered, e), baseline>>

\* lines 170-172: the pose is appended to the baseline trajectory; the
\* trajectory of the filter is left alone
AppendPose(filtered, baseline, e) == <<filtered, Append(baseline, e)>>

\* ------------------------------------------------------------------- Init
SchedulerInit ==
    /\ err = NoError
    /\ ts_obs = 0 /\ left_obs = 0 /\ right_obs = 0
    /\ ts_obs_prev = 0 /\ left_obs_prev = 0 /\ right_obs_prev = 0
    /\ ts_obs_0 = 0
    /\ ts_acts = 0 /\ left_acts = 0 /\ right_acts = 0
    /\ ts_acts_prev = 0 /\ left_acts_prev = 0 /\ right_acts_prev = 0
    /\ ts_acts_0 = 0
    /\ ts = 0 /\ v = 0 /\ w = 0
    /\ ekf = ekf_new
    /\ x = <<>> /\ y = <<>> /\ th = <<>>
    /\ obs_log = <<>> /\ obs_last = EofLine
    /\ acts_lines = <<>> /\ calls = <<>>
    /\ obs_reads = 0
    /\ last_read = Read("none", EofLine)

\* the names of the baseline are not bound before line 146
BaselineInit ==
    /\ timestamp_last = 0 /\ left = 0 /\ right = 0
    /\ state = ZeroState
    /\ odometry = <<0, 0>>
    /\ d_state = <<NoTerm, NoTerm, 0>>
    /\ x_in = <<>> /\ y_in = <<>> /\ th_in = <<>>
    /\ in_lines = <<>>

Init ==
    /\ pc = "L70"
    /\ script = NoScript
    /\ SchedulerInit
    /\ BaselineInit

\* ---------------------------------------------------------------- actions
\* line 70: the first observation line
ReadFirstObs ==
    /\ pc = "L70"
    /\ \E line \in NextObsLines :
        /\ obs_reads' = obs_reads + 1
        /\ last_read' = Read("obs", line)
        /\ IF ParsesAsTriple(line)
           THEN /\ ts_obs_prev' = line.ts
                /\ left_obs_prev' = line.left
                /\ right_obs_prev' = line.right
                /\ obs_log' = Append(obs_log, Logged(line))
                /\ obs_last' = line
                /\ pc' = "L72"
                /\ UNCHANGED err
           ELSE /\ Raise("ValueError", "L70", line)
                /\ UNCHANGED <<ts_obs_prev, left_obs_prev, right_obs_prev,
                               obs_log, obs_last>>
    /\ UNCHANGED <<ts_obs, left_obs, right_obs, ts_obs_0, actVars, ts, v, w,
                   ekf, trajVars, acts_lines, calls>>
    /\ UNCHANGED <<script, baseVars>>

\* lines 71-80: skip the leading samples without a tick change, then take
\* the time origin from the sample before the first change
FindFirstObs ==
    /\ pc = "L72"
    /\ \E line \in NextObsLines :
        /\ obs_reads' = obs_reads + 1
        /\ last_read' = Read("obs", line)
        /\ IF ~ParsesAsTriple(line)
           THEN /\ Raise("ValueError", "L72", line)
                /\ UNCHANGED <<obsVars, obs_log, obs_last>>
           ELSE /\ obs_log' = Append(obs_log, Logged(line))
                /\ obs_last' = line
                /\ left_obs' = line.left
                /\ right_obs' = line.right
                /\ UNCHANGED err
                /\ IF TickChanged(line.left, left_obs_prev,
                                  line.right, right_obs_prev)
                   THEN /\ ts_obs_0' = ts_obs_prev
                        /\ ts_obs_prev' = 0
                        /\ ts_obs' = NormalTime(line.ts, ts_obs_prev)
                        /\ UNCHANGED <<left_obs_prev, right_obs_prev>>
                        /\ pc' = "L82"
                   ELSE /\ ts_obs' = line.ts
                        /\ ts_obs_prev' = line.ts
                        /\ left_obs_prev' = line.left
                        /\ right_obs_prev' = line.right
                        /\ UNCHANGED ts_obs_0
                        /\ pc' = "L72"
    /\ UNCHANGED <<actVars, ts, v, w, ekf, trajVars, acts_lines, calls>>
    /\ UNCHANGED <<script, baseVars>>

\* lines 82-107: the first action line, the time origin of the actions,
\* the filter and the empty trajectory
ReadFirstAct ==
    /\ pc = "L82"
    /\ \E line \in NextActLines :
        /\ last_read' = Read("acts", line)
        /\ IF ParsesAsTriple(line)
           THEN /\ acts_lines' = Append(acts_lines, line)
                /\ ts_acts_0' = line.ts
                /\ ts_acts_prev' = 0
                /\ left_acts_prev' = line.left
                /\ right_acts_prev' = line.right
                /\ ts' = 0
                /\ ekf' = ekf_new
                /\ x' = <<>> /\ y' = <<>> /\ th' = <<>>
                /\ pc' = "L110"
                /\ UNCHANGED err
           ELSE /\ Raise("ValueError", "L82", line)
                /\ UNCHANGED <<acts_lines, ts_acts_0, ts_acts_prev,
                               left_acts_prev, right_acts_prev, ts, ekf,
                               trajVars>>
    /\ UNCHANGED <<obsVars, ts_acts, left_acts, right_acts, v, w,
                   obs_log, obs_last, calls, obs_reads>>
    /\ UNCHANGED <<script, baseVars>>

\* lines 110-117: the next action sample and the control for its interval
ReadAct ==
    /\ pc = "L110"
    /\ \E line \in NextActLines :
        /\ last_read' = Read("acts", line)
        /\ IF ActsExhausted(line)
           THEN /\ pc' = "L142"
                /\ UNCHANGED <<err, acts_lines, ts_acts, left_acts, right_acts,
                               v, w>>
           ELSE IF ~ParsesAsTriple(line)
           THEN /\ Raise("ValueError", "L113", line)
                /\ UNCHANGED <<acts_lines, ts_acts, left_acts, right_acts, v, w>>
           ELSE /\ acts_lines' = Append(acts_lines, line)
                /\ ts_acts' = NormalTime(line.ts, ts_acts_0)
                /\ left_acts' = line.left
                /\ right_acts' = line.right
                /\ LET c == ControlInput(<<left_acts_prev, right_acts_prev>>,
                                         <<line.left, line.right>>)
                   IN /\ v' = ControlV(c[1], c[2])
                      /\ w' = ControlW(c[1], c[2])
                /\ pc' = "L119"
                /\ UNCHANGED err
    /\ UNCHANGED <<obsVars, ts_acts_prev, left_acts_prev, right_acts_prev,
                   ts_acts_0, ts, ekf, trajVars, obs_log, obs_last, calls,
                   obs_reads>>
    /\ UNCHANGED <<script, baseVars>>

\* lines 119-120: an observation is due; predict up to its time
Predict ==
    /\ pc = "L119"
    /\ InnerLoopGuard(ts_obs, ts_acts)
    /\ ekf' = ekf_predict(ekf, <<v, w>>, PredictDt(ts_obs, ts))
    /\ calls' = Append(calls, Call("predict", Len(acts_lines), Len(obs_log),
                                   PredictDt(ts_obs, ts), <<v, w>>, <<>>))
    /\ pc' = "L121"
    /\ UNCHANGED <<err, obsVars, actVars, ts, v, w, trajVars, obs_log, obs_last,
                   acts_lines, obs_reads>>
    /\ UNCHANGED <<last_read, script, baseVars>>

\* lines 121-126: update with the tick delta of the observation and append
\* the corrected mean to the trajectory
Update ==
    /\ pc = "L121"
    /\ LET z == ObsDelta(left_obs, left_obs_prev, right_obs, right_obs_prev)
           e == ekf_update(ekf, z)
       IN /\ ekf' = e
          /\ calls' = Append(calls, Call("update", Len(acts_lines),
                                         Len(obs_log), 0, <<>>, z))
          /\ ts' = ts_obs
          /\ x' = TrajAppend(x, e)
          /\ y' = TrajAppend(y, e)
          /\ th' = TrajAppend(th, e)
    /\ pc' = "L128"
    /\ UNCHANGED <<err, obsVars, actVars, v, w, obs_log, obs_last, acts_lines,
                   obs_reads>>
    /\ UNCHANGED <<last_read, script, baseVars>>

\* lines 128-135: the next observation line, or the sentinel
ReadObs ==
    /\ pc = "L128"
    /\ \E line \in NextObsLines :
        /\ obs_reads' = obs_reads + 1
        /\ last_read' = Read("obs", line)
        /\ IF IsSentinel(line)
           THEN /\ ts_obs' = SentinelTime
                /\ pc' = "L137"
                /\ UNCHANGED <<err, left_obs, right_obs, ts_obs_prev,
                               left_obs_prev, right_obs_prev, obs_log, obs_last>>
           ELSE IF ~ParsesAsTriple(line)
           THEN /\ Raise("ValueError", "L134", line)
                /\ ts_obs_prev' = ts_obs
                /\ left_obs_prev' = left_obs
                /\ right_obs_prev' = right_obs
                /\ UNCHANGED <<ts_obs, left_obs, right_obs, obs_log, obs_last>>
           ELSE /\ ts_obs_prev' = ts_obs
                /\ left_obs_prev' = left_obs
                /\ right_obs_prev' = right_obs
                /\ ts_obs' = NormalTime(line.ts, ts_obs_0)
                /\ left_obs' = line.left
                /\ right_obs' = line.right
                /\ obs_log' = Append(obs_log, Logged(line))
                /\ obs_last' = line
                /\ pc' = "L119"
                /\ UNCHANGED err
    /\ UNCHANGED <<ts_obs_0, actVars, ts, v, w, ekf, trajVars, acts_lines,
                   calls>>
    /\ UNCHANGED <<script, baseVars>>

\* lines 137-140: the catch-up predict to the action time, then the action
\* slots move on
CatchUp ==
    /\ \/ pc = "L137"
       \/ pc = "L119" /\ ~InnerLoopGuard(ts_obs, ts_acts)
    /\ ekf' = ekf_predict(ekf, <<v, w>>, PredictDt(ts_acts, ts))
    /\ calls' = Append(calls, Call("predict", Len(acts_lines), 0,
                                   PredictDt(ts_acts, ts), <<v, w>>, <<>>))
    /\ ts' = ts_acts
    /\ ts_acts_prev' = ts_acts
    /\ left_acts_prev' = left_acts
    /\ right_acts_prev' = right_acts
    /\ pc' = "L110"
    /\ UNCHANGED <<err, obsVars, ts_acts, left_acts, right_acts, ts_acts_0,
                   v, w, trajVars, obs_log, obs_last, acts_lines, obs_reads>>
    /\ UNCHANGED <<last_read, script, baseVars>>

\* lines 142-143: both streams are closed
Close ==
    /\ pc = "L142"
    /\ pc' = "done"
    /\ UNCHANGED <<err, obsVars, actVars, ts, v, w, ekf, trajVars, obs_log, obs_last,
                   acts_lines, calls, obs_reads>>
    /\ UNCHANGED <<last_read, script, baseVars>>

Next ==
    \/ ReadFirstObs
    \/ FindFirstObs
    \/ ReadFirstAct
    \/ ReadAct
    \/ Predict
    \/ Update
    \/ ReadObs
    \/ CatchUp
    \/ Close

Spec == Init /\ [][Next]_vars

\* ------------------------------------------------- dead-reckoning baseline
\* lines 146-153: the zero pose, the first line of the input file and the
\* three lists that start with the zero pose
ReadFirstIn ==
    /\ pc = "done"
    /\ \E line \in NextInLines :
        /\ last_read' = Read("f_in", line)
        /\ state' = ZeroState
        /\ IF ParsesAsTriple(line)
           THEN /\ timestamp_last' = line.ts
                /\ left' = line.left
                /\ right' = line.right
                /\ x_in' = <<ZeroState[1]>>
                /\ y_in' = <<ZeroState[2]>>
                /\ th_in' = <<ZeroState[3]>>
                /\ in_lines' = Append(in_lines, line)
                /\ pc' = "L159"
                /\ UNCHANGED err
           ELSE /\ Raise("ValueError", "L149", line)
                /\ UNCHANGED <<timestamp_last, left, right, x_in, y_in, th_in,
                               in_lines>>
    /\ UNCHANGED <<schedVars, trajVars, script, odometry, d_state>>

\* lines 158-172: one pass of the baseline loop
BaselineStep ==
    /\ pc = "L159"
    /\ \E line \in NextInLines :
        /\ last_read' = Read("f_in", line)
        /\ IF ~ParsesAsInts(line)
           THEN /\ Raise("ValueError", "L159", line)
                /\ UNCHANGED <<baseVars, trajVars>>
           ELSE IF NoTokens(line)
           THEN /\ pc' = "L174"
                /\ UNCHANGED <<err, baseVars, trajVars>>
           ELSE LET d_time == line.ts - timestamp_last
                    ticks == OdoInput(<<left, right>>, <<line.left, line.right>>)
                    odo == Odometry(ticks[1], ticks[2], d_time)
                    d == forward_kinematics(params, state, odo)
                    new == StateAdd(state, d)
                    xs == AppendPose(x, x_in, new[1])
                    ys == AppendPose(y, y_in, new[2])
                    ths == AppendPose(th, th_in, new[3])
                IN /\ timestamp_last' = line.ts
                   /\ odometry' = odo
                   /\ IF ~HasIndex(line, 1)
                      THEN /\ Raise("IndexError", "L166", line)
                           /\ UNCHANGED <<left, right, state, d_state, x_in,
                                          y_in, th_in, in_lines, trajVars>>
                      ELSE IF ~HasIndex(line, 2)
                      THEN /\ Raise("IndexError", "L167", line)
                           /\ left' = line.left
                           /\ UNCHANGED <<right, state, d_state, x_in, y_in,
                                          th_in, in_lines, trajVars>>
                      ELSE IF ~KinAsserts(params, state, odo)
                      THEN /\ Raise("AssertionError", "L25", line)
                           /\ left' = line.left
                           /\ right' = line.right
                           /\ UNCHANGED <<state, d_state, x_in, y_in, th_in,
                                          in_lines, trajVars>>
                      ELSE /\ left' = line.left
                           /\ right' = line.right
                           /\ d_state' = d
                           /\ state' = new
                           /\ x' = xs[1] /\ x_in' = xs[2]
                           /\ y' = ys[1] /\ y_in' = ys[2]
                           /\ th' = ths[1] /\ th_in' = ths[2]
                           /\ in_lines' = Append(in_lines, line)
                           /\ pc' = "L159"
                           /\ UNCHANGED err
    /\ UNCHANGED <<schedVars, script>>

\* lines 174-183: the input file is closed and the two paths are plotted
CloseIn ==
    /\ pc = "L174"
    /\ pc' = "finished"
    /\ UNCHANGED <<err, schedVars, trajVars, last_read, script, baseVars>>

\* --------------------------------------- forward_kinematics on its own
\* a call of forward_kinematics with the geometry of lines 65-67, a pose of
\* any heading and any pair of wheel displacements
KinInit ==
    /\ pc = "L25"
    /\ script = NoScript
    /\ SchedulerInit
    /\ timestamp_last = 0 /\ left = 0 /\ right = 0
    /\ state \in {<<<<>>, <<>>, t>> : t \in -MaxTheta..MaxTheta}
    /\ odometry \in {<<r, l>> : r \in -MaxOdo..MaxOdo, l \in -MaxOdo..MaxOdo}
    /\ d_state = <<NoTerm, NoTerm, 0>>
    /\ x_in = <<>> /\ y_in = <<>> /\ th_in = <<>>
    /\ in_lines = <<>>

\* lines 25-51: the body of forward_kinematics
KinApply ==
    /\ pc = "L25"
    /\ IF KinAsserts(params, state, odometry)
       THEN /\ d_state' = forward_kinematics(params, state, odometry)
            /\ pc' = "L51"
            /\ UNCHANGED err
       ELSE /\ Raise("AssertionError", "L25", last_read.line)
            /\ UNCHANGED d_state
    /\ UNCHANGED <<schedVars, trajVars, last_read, script, timestamp_last,
                   left, right, state, odometry, x_in, y_in, th_in, in_lines>>

KinNext == KinApply

KinSpec == KinInit /\ [][KinNext]_vars

\* ------------------------------------------------------ the whole run
\* gaps between the observation samples and tick increase per observation
\* of the straight-line runs
ScenarioGaps == {1, 10, 50}
ScenarioTicks == {1, 5, 25}

\* a straight-line run: two action samples, the first with zero ticks, and
\* three observation samples with equal counts on both wheels; the
\* observation file ends with `tail`
Scenario(gap, c, tail) ==
    [on |-> TRUE,
     acts |-> <<Sample(0, 0, 0), Sample(2 * gap, 2 * c, 2 * c)>>,
     obs |-> <<Sample(0, 0, 0), Sample(gap, c, c),
               Sample(2 * gap, 2 * c, 2 * c)>> \o tail]

\* the observation file ends after its last sample or with an empty line
Scenarios ==
    {Scenario(gap, c, tail) :
        gap \in ScenarioGaps, c \in ScenarioTicks,
        tail \in {<<>>, <<EmptyLine>>}}

\* a run with non-zero action ticks a, b and c: three action samples, and
\* three observation samples with equal counts followed by the empty line
TickRun(a, b, c) ==
    [on |-> TRUE,
     acts |-> <<Sample(1, a[1], a[2]), Sample(3, b[1], b[2]),
                Sample(5, c[1], c[2])>>,
     obs |-> <<Sample(0, 3, 3), Sample(1, 4, 4), Sample(2, 5, 5), EmptyLine>>]

TickRuns == {TickRun(a, b, c) : a \in ActTicks, b \in ActTicks, c \in ActTicks}

\* the scheduler logs of the whole-run specification
Logs == Scenarios \cup TickRuns

FullInit ==
    /\ pc = "L70"
    /\ script \in Logs
    /\ SchedulerInit
    /\ BaselineInit

\* the whole of aplly_EKF: the scheduler, then the baseline
FullNext ==
    \/ Next
    \/ ReadFirstIn
    \/ BaselineStep
    \/ CloseIn

\* aplly_EKF from line 54 to line 183, the scheduler over fixed logs and the
\* baseline over every input file within the bounds
FullSpec == FullInit /\ [][FullNext]_vars

\* ------------------------------------------------------- history operators
\* The belief's version stamp is the position in `calls` of the call that
\* produced it.
UpdatesOf(c) == {k \in 1..Len(c) : c[k].op = "update"}
Updates == UpdatesOf(calls)
Predicts == {k \in 1..Len(calls) : calls[k].op = "predict"}
\* a catch-up predict is a predict made for no observation
CatchUps == {k \in Predicts : calls[k].obs = 0}
PairedPredicts == Predicts \ CatchUps

\* position in the observation file of the first sample with a tick change
Moved == {i \in 1..Len(obs_log) : obs_log[i].moved}
FirstMoved == IF Moved = {} THEN 0 ELSE CHOOSE i \in Moved : \A j \in Moved : i <= j

\* the observation sample read ahead and not yet handed to update
Pending == IF ts_obs # Inf THEN 1 ELSE 0

\* timestamps as the scheduler normalises them
ObsTime(i) == obs_log[i].ts - obs_log[FirstMoved - 1].ts
ActTime(j) == acts_lines[j].ts - acts_lines[1].ts

\* per-wheel sum of the deltas handed to the update calls among the first n
\* calls
RECURSIVE SumZ(_)
SumZ(n) ==
    IF n = 0 THEN <<0, 0>>
    ELSE LET rest == SumZ(n - 1) IN
         IF calls[n].op = "update"
         THEN <<rest[1] + calls[n].z[1], rest[2] + calls[n].z[2]>>
         ELSE rest

\* the observation sample handed to the latest update call, 0 if none yet
LastUpdated ==
    IF Updates = {} THEN 0
    ELSE calls[CHOOSE k \in Updates : \A j \in Updates : j <= k].obs

\* an action sample has been processed to its end
Quiescent == pc \in {"L110", "L142", "done"}
\* an action sample is being processed
Processing == pc \in {"L119", "L121", "L128", "L137"}

\* the empty line that ends the observations has been read: one line more
\* than the samples was read and the read did not raise
SentinelSeen ==
    /\ obs_reads > Len(obs_log)
    /\ err.at \notin {"L70", "L72", "L134"}

\* the last update call
LastUpdate == CHOOSE k \in Updates : \A j \in Updates : j <= k

\* the calls made since the sentinel was seen at action sample a: one
\* catch-up predict per action sample from a on, in order, and from a + 1
\* on with the gap between consecutive action timestamps as dt
SentinelTail ==
    LET ku == LastUpdate
        a == calls[ku].act
        n == Len(acts_lines)
    IN /\ \A k \in (ku + 1)..Len(calls) :
             /\ calls[k].op = "predict"
             /\ calls[k].obs = 0
             /\ calls[k].act = a + (k - ku - 1)
             /\ calls[k].act > a =>
                   calls[k].dt = ActTime(calls[k].act) - ActTime(calls[k].act - 1)
       /\ Quiescent => Len(calls) - ku = n - a + 1

\* a line whose token count is not 3 or that holds a token that is no
\* integer; the empty line and the end of input are the stream ends
Malformed(line) == line.kind \in {"malformed", "one", "two", "long"}

\* every sample read so far, from any of the three logs, has the same tick
\* value on both wheels
EqualTicks ==
    /\ \A i \in 1..Len(obs_log) : obs_log[i].left = obs_log[i].right
    /\ \A j \in 1..Len(acts_lines) : acts_lines[j].left = acts_lines[j].right
    /\ \A i \in 1..Len(in_lines) : in_lines[i].left = in_lines[i].right

\* the source lines of the scheduler that can raise
SchedulerLines == {"L70", "L72", "L82", "L113", "L134"}

\* ----------------------------------------------------------------- claims
\* C1 (as amended): when the scheduler finishes, the number of update calls
\* is the number of observation samples read, less the leading samples
\* before the first tick change, less the one sample read ahead and not yet
\* due; and one catch-up predict was issued per action sample after the
\* first, which only sets the time origin and the first "previous" slot.
C1_Counting ==
    pc = "done" =>
        /\ Cardinality(Updates) = Len(obs_log) - (FirstMoved - 1) - Pending
        /\ Cardinality(CatchUps) = Len(acts_lines) - 1

\* C1 as stated: updates = observation samples read, one catch-up predict
\* per action sample
C1_AsStated ==
    pc = "done" =>
        /\ Cardinality(Updates) = Len(obs_log)
        /\ Cardinality(CatchUps) = Len(acts_lines)

C1_Witness ==
    /\ pc = "done"
    /\ FirstMoved = 2
    /\ Pending = 1
    /\ Cardinality(Updates) = 1
    /\ Cardinality(CatchUps) = 2

\* C2: an observation stream that ends (empty line or end of input) while
\* the inner loop reads ahead does not raise.
C2_NoCrashOnExhaustion ==
    ~(pc = "crashed" /\ err.at = "L134" /\ err.line \in {"empty", "eof"})

\* C3 (as amended): whenever an action sample has been processed to its end,
\* every observation sample from the first tick change on whose normalised
\* timestamp is at or before that of an action sample after the first has
\* had predict and then update called exactly once, nothing between the
\* two, in stream order; the samples before the first tick change get no
\* call.
C3_OncePerObservation ==
    Quiescent =>
        /\ \A i \in 1..Len(obs_log) :
              /\ i >= FirstMoved
              /\ \E j \in 2..Len(acts_lines) : ObsTime(i) <= ActTime(j)
              => Cardinality({k \in Updates : calls[k].obs = i}) = 1
        /\ \A k \in Updates :
              /\ k > 1
              /\ calls[k - 1].op = "predict"
              /\ calls[k - 1].obs = calls[k].obs
              /\ calls[k].obs >= FirstMoved
        /\ \A k \in PairedPredicts :
              /\ k < Len(calls)
              /\ calls[k + 1].op = "update"
        /\ \A k1, k2 \in Updates :
              k1 < k2 =>
                 /\ calls[k1].obs < calls[k2].obs
                 /\ obs_log[calls[k1].obs].ts <= obs_log[calls[k2].obs].ts

\* C3 as stated: every observation sample at or before some action sample
\* gets its predict/update pair exactly once
C3_AsStated ==
    pc = "done" =>
        \A i \in 1..Len(obs_log) :
           (\E j \in 1..Len(acts_lines) :
               obs_log[i].ts - ts_obs_0 <= ActTime(j))
           => /\ Cardinality({k \in Updates : calls[k].obs = i}) = 1
              /\ \A k \in Updates :
                    calls[k].obs = i =>
                       k > 1 /\ calls[k - 1].op = "predict"

C3_Witness ==
    /\ pc = "done"
    /\ Cardinality(Updates) = 2
    /\ Cardinality(CatchUps) = 2
    /\ \E k \in Updates : calls[k].act = 2
    /\ \E k \in Updates : calls[k].act = 3

\* C4: every predict, paired or catch-up, is handed dt >= 0, and the
\* last-predict time is never negative.
C4_NonNegativeDt ==
    /\ \A k \in Predicts : calls[k].dt >= 0
    /\ ts >= 0

C4_Witness ==
    /\ \E k \in PairedPredicts : calls[k].dt > 0
    /\ \E k \in CatchUps : calls[k].dt > 0
    /\ \E k \in CatchUps : calls[k].dt = 0

\* C5: while an action sample is processed the last-predict time is at or
\* before the action's time, and right after the catch-up predict it is the
\* action's time.
C5_NotPastControl ==
    /\ Processing => ts <= ActTime(Len(acts_lines))
    /\ pc = "L110" /\ Len(acts_lines) >= 2 => ts = ActTime(Len(acts_lines))

C5_Witness ==
    /\ pc = "L137"
    /\ ts > ActTime(Len(acts_lines) - 1)
    /\ ts < ActTime(Len(acts_lines))

\* C6 (as amended): a trajectory entry is the mean right after an update
\* call; no predict call, paired or catch-up, appends; after the run the
\* entries are exactly the results of the update calls, so the length is
\* the number of calls less the number of predict calls.
C6_SnapshotPerUpdate ==
    /\ \A i \in 1..Len(x) : x[i] \in Updates /\ y[i] = x[i] /\ th[i] = x[i]
    /\ pc = "done" =>
          /\ {x[i] : i \in 1..Len(x)} = Updates
          /\ Len(x) = Len(calls) - Cardinality(Predicts)

\* C6 as stated: one entry per predict call and per update call
C6_AsStated == pc = "done" => Len(x) = Len(calls)

C6_Witness ==
    /\ pc = "done"
    /\ Len(x) = 2
    /\ Cardinality(CatchUps) = 2

\* C7: the three lists have the same length, which is the number of update
\* calls so far, and a step only ever appends to them.  (The three appends
\* of lines 124-126 follow the update of line 121 with nothing that can
\* raise in between; they form one step.)
C7_AppendOnly ==
    [][/\ Len(x') = Cardinality(UpdatesOf(calls'))
       /\ Len(y') = Len(x')
       /\ Len(th') = Len(x')
       /\ Len(x') >= Len(x)
       /\ SubSeq(x', 1, Len(x)) = x
       /\ SubSeq(y', 1, Len(y)) = y
       /\ SubSeq(th', 1, Len(th)) = th]_vars

C7_Witness ==
    /\ pc = "L128"
    /\ Len(x) = 2
    /\ Len(calls) = 5

\* C8 (as amended): the control of every predict made for action sample i
\* (i >= 2) comes from the tick values of action sample i-1 as read (not
\* from their difference to sample i-2) and the fixed constants, never from
\* sample i; the (previous, current) slots hold samples i-1 and i while
\* sample i is processed and move on once, with the catch-up predict.
C8_ControlLag ==
    LET n == Len(acts_lines) IN
    /\ \A k \in Predicts :
          LET i == calls[k].act IN
          /\ i >= 2
          /\ calls[k].u =
                <<d_r_num * acts_lines[i - 1].right
                     + d_l_num * acts_lines[i - 1].left,
                  d_r_num * acts_lines[i - 1].right
                     - d_l_num * acts_lines[i - 1].left>>
    /\ Processing =>
          /\ <<left_acts_prev, right_acts_prev>> =
                <<acts_lines[n - 1].left, acts_lines[n - 1].right>>
          /\ <<left_acts, right_acts>> =
                <<acts_lines[n].left, acts_lines[n].right>>
          /\ ts_acts_prev = ActTime(n - 1)
    /\ pc = "L110" =>
          /\ <<left_acts_prev, right_acts_prev>> =
                <<acts_lines[n].left, acts_lines[n].right>>
          /\ ts_acts_prev = ActTime(n)

\* C8 as stated: the control comes from the tick deltas of sample i-1
\* against sample i-2
C8_AsStated ==
    \A k \in Predicts :
       LET i == calls[k].act
           dl == acts_lines[i - 1].left - acts_lines[i - 2].left
           dr == acts_lines[i - 1].right - acts_lines[i - 2].right
       IN i >= 3 => calls[k].u = <<d_r_num * dr + d_l_num * dl,
                                   d_r_num * dr - d_l_num * dl>>

C8_Witness ==
    /\ \E k \in PairedPredicts :
          /\ calls[k].act = 3
          /\ acts_lines[2].left # acts_lines[3].left
          /\ acts_lines[1].left # acts_lines[2].left
    /\ \E k \in CatchUps : calls[k].act = 3

\* C9: a run over two finite streams of well-formed samples does not abort:
\* not when the observation stream ends without any tick change, and not
\* when it ends by end of input in the inner loop.
C9_NoAbort ==
    ~(pc = "crashed" /\ err.line = "eof" /\ err.at \in {"L72", "L134"})

\* C12 (as amended): every action timestamp the scheduler uses is the raw
\* timestamp less the raw timestamp of the first action sample; every
\* observation timestamp the main loop uses is the raw timestamp less the
\* raw timestamp of the sample read just before the first tick change (the
\* last of the leading idle samples), which is the first sample of the
\* stream only when the second sample already changes a count.
C12_Normalization ==
    /\ Len(acts_lines) >= 1 => ts_acts_0 = acts_lines[1].ts
    /\ Processing => ts_acts = ActTime(Len(acts_lines))
    /\ FirstMoved # 0 =>
          /\ ts_obs_0 = obs_log[FirstMoved - 1].ts
          /\ ts_obs # Inf => ts_obs = obs_last.ts - obs_log[FirstMoved - 1].ts
    /\ pc = "L128" => ts = ObsTime(Len(obs_log))

\* C12 as stated: the observation timestamps are taken relative to the
\* first observation sample of the stream
C12_AsStated ==
    /\ Processing => ts_acts = ActTime(Len(acts_lines))
    /\ FirstMoved # 0 /\ ts_obs # Inf => ts_obs = obs_last.ts - obs_log[1].ts

C12_Witness ==
    /\ pc = "L128"
    /\ FirstMoved = 3
    /\ obs_log[2].ts > obs_log[1].ts
    /\ obs_log[3].ts > obs_log[2].ts
    /\ acts_lines[1].ts = 1
    /\ ts_acts = 2

\* C18: every update call is handed the counts of the observation sample
\* it consumes less the counts of the sample just before it in the stream;
\* the samples consumed are consecutive from the first tick change on; so
\* the per-wheel sum of all deltas handed over so far is the count of the
\* sample updated last less the count of the first sample of the stream.
C18_NoTickLost ==
    /\ \A k \in Updates :
          LET i == calls[k].obs IN
          /\ i >= 2
          /\ calls[k].z = <<obs_log[i].left - obs_log[i - 1].left,
                            obs_log[i].right - obs_log[i - 1].right>>
    /\ {calls[k].obs : k \in Updates} =
          (IF Updates = {} THEN {} ELSE FirstMoved..LastUpdated)
    /\ Updates # {} =>
          SumZ(Len(calls)) =
             <<obs_log[LastUpdated].left - obs_log[1].left,
               obs_log[LastUpdated].right - obs_log[1].right>>

C18_Witness ==
    /\ pc = "L128"
    /\ Cardinality(Updates) = 2
    /\ \E k \in Updates : calls[k].act = 2 /\ calls[k].z = <<1, 0>>
    /\ \E k \in Updates : calls[k].act = 3 /\ calls[k].z = <<0, 1>>
    /\ SumZ(Len(calls)) = <<1, 1>>

\* C19: once the empty line that ends the observations has been read,
\* ts_obs is the sentinel for good; no step reads the observations again
\* or calls update again; and every action sample from then on gets
\* exactly one predict, the catch-up, whose dt for every sample read after
\* the sentinel is the gap to the action sample before it.
C19_SentinelAbsorbing ==
    [][SentinelSeen =>
          /\ ts_obs = Inf
          /\ ts_obs' = Inf
          /\ obs_reads' = obs_reads
          /\ obs_log' = obs_log
          /\ UpdatesOf(calls') = UpdatesOf(calls)
          /\ SentinelTail
          /\ SentinelTail']_vars

C19_Witness ==
    /\ SentinelSeen
    /\ pc = "done"
    /\ Len(acts_lines) = 3
    /\ calls[LastUpdate].act = 2
    /\ Len(calls) = LastUpdate + 2
    /\ calls[Len(calls)].dt = 2

\* C14: when forward_kinematics returns for a pose of heading theta and a
\* pair of equal right and left displacements (d_angle = 0), the result is
\* exactly (d_len*cos(theta), d_len*sin(theta), 0); the arc expressions,
\* which divide by d_angle, are the result if and only if d_angle # 0, so
\* no result divides by zero.
C14_StraightLine ==
    pc = "L51" =>
       LET theta == state[3]
           d_len == odometry[1] + odometry[2]
           equal == odometry[1] = odometry[2]
       IN /\ equal =>
                d_state = <<Term("len*cos", d_len, 0, theta),
                            Term("len*sin", d_len, 0, theta),
                            0>>
          /\ ~equal <=>
                /\ d_state[1].f = "arc_x"
                /\ d_state[2].f = "arc_y"
          /\ \A i \in 1..2 :
                d_state[i].f \in {"arc_x", "arc_y"} => d_state[i].d_angle # 0

C14_Witness ==
    /\ pc = "L51"
    /\ odometry[1] = odometry[2]
    /\ odometry[1] # 0
    /\ state[3] # 0
    /\ d_state[1].f = "len*cos"
    /\ d_state[3] = 0

\* C11: a malformed line returned by a readline() on any of the three logs
\* aborts the run with an error raised on that line, and no line taken into
\* the baseline trajectory is malformed.
C11_MalformedFatal ==
    /\ Malformed(last_read.line) =>
          /\ pc = "crashed"
          /\ err.line = last_read.line.kind
    /\ \A i \in 1..Len(in_lines) : ~Malformed(in_lines[i])

\* C13 (as amended): in a run whose samples all have the same tick value on
\* both wheels, the angular rate of every predict is the difference of the
\* two per-wheel rates times the tick value of the action sample before the
\* one being processed, and every baseline step adds to the heading that
\* difference times the tick value of the previous input line times the
\* time gap; the heading starts at 0.  So w is 0 only for a zero tick value
\* and the heading stays 0 only while every step has a zero tick value or
\* a zero gap.  (Numerators; the code multiplies by positive constants.)
C13_HeadingDrift ==
    EqualTicks =>
       /\ \A k \in Predicts :
             calls[k].u[2] =
                (d_r_num - d_l_num) * acts_lines[calls[k].act - 1].left
       /\ Len(th_in) >= 1 => th_in[1] = 0
       /\ \A i \in 2..Len(th_in) :
             th_in[i] - th_in[i - 1] =
                (d_r_num - d_l_num) * in_lines[i - 1].left
                   * (in_lines[i].ts - in_lines[i - 1].ts)

\* C13 as stated: equal tick values give a zero angular rate in every
\* predict and a baseline heading of 0 after every step
C13_AsStated ==
    EqualTicks =>
       /\ \A k \in Predicts : calls[k].u[2] = 0
       /\ \A i \in 1..Len(th_in) : th_in[i] = 0

C13_Witness ==
    /\ EqualTicks
    /\ pc = "finished"
    /\ \E k \in Predicts : calls[k].u[2] > 0
    /\ Len(th_in) = 3
    /\ th_in[2] > 0
    /\ th_in[3] > th_in[2]

\* C15: over the action log (0,0,0), (100,50,50) and the observation log
\* (0,0,0), (50,25,25), (100,50,50), however the observation file ends,
\* the scheduler raises nowhere, and when it has finished the trajectory
\* holds the snapshots of the two observations that were due.  (The values
\* of the snapshots are computed by the filter, which is held as a version
\* stamp.)
C15_ScenarioCompletes ==
    script \in {Scenario(50, 25, tail) : tail \in {<<>>, <<EmptyLine>>}} =>
       /\ err.at \notin SchedulerLines
       /\ pc \in {"done", "L159", "L174", "finished"} => Len(x) = 2

\* C16: once the first input line is read the baseline trajectory starts
\* with the zero pose and holds one pose per line taken as a sample; the
\* pose of line i (i >= 2) is the pose of line i-1 plus the increment that
\* forward_kinematics returns for it and for the per-wheel distances
\* rate * dt * ticks, with dt the gap between the timestamps of lines i-1
\* and i and the ticks those in force over that gap, read with line i-1;
\* the running pose is the last pose appended.
C16_Baseline ==
    pc \in {"L159", "L174", "finished"} =>
       /\ Len(x_in) = Len(in_lines)
       /\ Len(y_in) = Len(in_lines)
       /\ Len(th_in) = Len(in_lines)
       /\ <<x_in[1], y_in[1], th_in[1]>> = ZeroState
       /\ \A i \in 2..Len(in_lines) :
             LET dt == in_lines[i].ts - in_lines[i - 1].ts
                 dist == <<in_lines[i - 1].right * dt * d_r_num,
                           in_lines[i - 1].left * dt * d_l_num>>
                 before == <<x_in[i - 1], y_in[i - 1], th_in[i - 1]>>
                 inc == forward_kinematics(params, before, dist)
             IN /\ x_in[i] = Append(x_in[i - 1], inc[1])
                /\ y_in[i] = Append(y_in[i - 1], inc[2])
                /\ th_in[i] = th_in[i - 1] + inc[3]
       /\ state = <<x_in[Len(x_in)], y_in[Len(y_in)], th_in[Len(th_in)]>>

C16_Witness ==
    /\ pc = "finished"
    /\ Len(in_lines) = 3
    /\ Len(x_in) = 3
    /\ \A i \in 1..3 : in_lines[i].kind = "sample"
    /\ in_lines[1].left # in_lines[2].left
    /\ in_lines[2].left # in_lines[3].left
    /\ in_lines[2].ts > in_lines[1].ts
    /\ in_lines[3].ts > in_lines[2].ts

\* C17: a step changes the belief only by making one predict or update
\* call, whose result the belief then is; and from the moment the scheduler
\* has closed its logs, through the whole baseline, no step makes a call on
\* the filter or changes the belief, the last-predict time, an observation
\* or action slot, the control or the filtered trajectory.
C17_SingleWriter ==
    [][/\ ekf' # ekf =>
             /\ calls' = Append(calls, calls'[Len(calls')])
             /\ calls'[Len(calls')].op = ekf'.last
             /\ ekf'.last \in {"predict", "update"}
             /\ ekf'.version = Len(calls')
       /\ pc \in {"done", "L159", "L174"} =>
             UNCHANGED <<ekf, calls, ts, v, w, obsVars, actVars, trajVars>>]_vars

C17_Witness ==
    /\ pc = "finished"
    /\ Len(x_in) = 3
    /\ state[3] # 0
    /\ Len(x) = 2
    /\ Len(calls) = 6
    /\ ekf.version = 6

====
